---- MODULE Spec2Model ----
(***************************************************************************)
(* Model of iso-ai-backend/main.py: the /analyze pipeline (temporary       *)
(* upload file, text extraction, one Judge call per catalog control,       *)
(* summary, HTML report, PDF report, cleanup in finally) and the two       *)
(* report download routes.                                                 *)
(*                                                                         *)
(* Strings that the code escapes or compares are sequences of tokens; a    *)
(* token is either one markup metacharacter or a piece of text without     *)
(* any metacharacter, so that str.replace on a single character is a       *)
(* token-wise replacement.                                                 *)
(*                                                                         *)
(* analyze_pdf is an "async def" whose body after "await file.read()"      *)
(* only makes blocking calls: inside one server process it holds the       *)
(* event loop from there to its end (variable loop).  The download routes  *)
(* are plain "def" and run in the thread pool, at any moment.              *)
(***************************************************************************)
EXTENDS Integers, Sequences, FiniteSets, TLC

\* ------------------------------------------------------------------ bounds
MaxControls == 3      \* largest catalog
MaxRequests == 2      \* analyze requests in a behaviour
MaxCalls == 3         \* Judge calls the oracle accepts in a behaviour
MaxLen == 3           \* longest free text of the row rendered alone

VARIABLES
    catalog,       \* iso_controls, loaded at startup
    pc,            \* pc[r]: where request r is in analyze_pdf
    loop,          \* request whose handler occupies the event loop, 0 if none
    tempFiles,     \* temporary upload files on disk (named by their request)
    extracted,     \* extracted[r]: extracted_text
    calls,         \* calls[r]: the Judge invocations made so far
    results,       \* results[r]: the results list
    summary,       \* summary[r]
    error,         \* error[r]: the exception that ended the try block
    response,      \* response[r]: status of the response r's client received
    before,        \* before[r]: the report files when r's try block began
    produced,      \* the report files some run has opened for writing
    html,          \* reports/report.html
    pdf,           \* reports/report.pdf
    oracleCalls,   \* number of Judge calls the oracle has received
    sent,          \* the /analyze response sent in the latest step
    lastDownload,  \* reply of the download request served in the latest step
    escIn,         \* a result row's free-text field and its text, rendered alone
    escOut         \* the table row rendered from it

vars == <<catalog, pc, loop, tempFiles, extracted, calls, results, summary,
          error, response, before, produced, html, pdf, oracleCalls, sent,
          lastDownload, escIn, escOut>>

reqVars == <<extracted, calls, results, summary, error, response, before>>

Requests == 1..MaxRequests

\* ------------------------------------------------------------- constants
NoFile == [exists |-> FALSE]
NoRow == [rendered |-> FALSE]
NoRowInput == [field |-> "none", text |-> << >>]
NoSummary == [set |-> FALSE]
NoResponse == [status |-> "none"]

MET == <<"MET">>
PARTIALLY_MET == <<"PARTIALLY MET">>
NOT_MET == <<"NOT MET">>
StatusEnum == {MET, PARTIALLY_MET, NOT_MET}
RiskEnum == {<<"LOW">>, <<"MEDIUM">>, <<"HIGH">>}
VerdictFields == {"status", "justification", "risk_level", "recommendation"}

\* ---------------------------------------------------------------- catalog
\* One row of data/iso_controls_master.csv as load_iso_controls stores it
\* (the columns analyze_pdf reads).
ControlRow(i) ==
    [new_control_id |-> <<"5.", ToString(i)>>,
     new_title      |-> IF i % 2 = 1 THEN <<"Policies">>
                                     ELSE <<"Roles ", "&", " <", "duties", ">">>,
     domain         |-> <<"Organizational">>]

load_iso_controls(n) == [i \in 1..n |-> ControlRow(i)]

\* ----------------------------------------------------------------- oracle
\* Replies of the chat completion endpoint to one analyze_control call.
VMet == [status |-> MET, justification |-> <<"Section 2 covers it">>,
         risk_level |-> <<"LOW">>, recommendation |-> <<"None">>]
VPart == [status |-> PARTIALLY_MET,
          justification |-> <<"<", "script", ">", "&", "\"">>,
          risk_level |-> <<"MEDIUM">>, recommendation |-> <<"Review R", "&", "D">>]
VNot == [status |-> NOT_MET, justification |-> <<"No evidence">>,
         risk_level |-> <<"HIGH">>, recommendation |-> <<"Write a policy">>]
VOffEnum == [status |-> <<"Compliant">>, justification |-> <<"Looks fine">>,
             risk_level |-> <<"CRITICAL">>, recommendation |-> <<"None">>]

Without(obj, f) == [g \in (DOMAIN obj) \ {f} |-> obj[g]]

JsonObjects ==
    {VMet, VPart, VNot, VOffEnum}
        \cup {Without(VMet, f) : f \in VerdictFields}

OracleReplies ==
    {[kind |-> "http_error"], [kind |-> "not_json"]}
        \cup {[kind |-> "json", obj |-> o] : o \in JsonObjects}

ExtractedTexts == {<< >>, <<"Access is reviewed yearly.", "\n">>}

\* --------------------------------------------------------- pure functions
\* str.replace(old, new) for a one-character old.
RECURSIVE Replace(_, _, _)
Replace(text, old, new) ==
    IF text = << >> THEN << >>
    ELSE (IF Head(text) = old THEN new ELSE <<Head(text)>>)
             \o Replace(Tail(text), old, new)

\* A plausible slip: the ampersand replaced last, after the entities exist.
escape_html_amp_last(text) ==
    Replace(Replace(Replace(Replace(text,
        "<", <<"&", "lt;">>), ">", <<"&", "gt;">>), "\"", <<"&", "quot;">>),
        "&", <<"&", "amp;">>)

escape_html(text) ==
    Replace(Replace(Replace(Replace(text,
        "&", <<"&", "amp;">>), "<", <<"&", "lt;">>), ">", <<"&", "gt;">>),
        "\"", <<"&", "quot;">>)

\* str.lower() on the risk values the oracle can send.
LowerToken(t) ==
    CASE t = "LOW" -> "low"
      [] t = "MEDIUM" -> "medium"
      [] t = "HIGH" -> "high"
      [] t = "CRITICAL" -> "critical"
      [] OTHER -> t

lower(text) == [i \in 1..Len(text) |-> LowerToken(text[i])]

\* The classes the report's style sheet defines.
StatusClasses == {<<"status-met">>, <<"status-partially-met">>, <<"status-not-met">>}
RiskClasses == {<<"risk-", "low">>, <<"risk-", "medium">>, <<"risk-", "high">>}

status_class(result) ==
    IF result.status = MET THEN <<"status-met">>
    ELSE IF result.status = PARTIALLY_MET THEN <<"status-partially-met">>
    ELSE <<"status-not-met">>

risk_class(result) == <<"risk-">> \o lower(result.risk_level)

\* One <tr> of the report table.
RenderRow(result) ==
    [control_id     |-> escape_html(result.control_id),
     control_title  |-> escape_html(result.control_title),
     domain         |-> escape_html(result.domain),
     status_class   |-> status_class(result),
     status         |-> escape_html(result.status),
     risk_class     |-> risk_class(result),
     risk_level     |-> escape_html(result.risk_level),
     justification  |-> escape_html(result.justification),
     recommendation |-> escape_html(result.recommendation)]

\* The document generate_html_report writes; run stands for its timestamp.
HtmlDocument(r, sum, res) ==
    [exists |-> TRUE, complete |-> TRUE, run |-> r, summary |-> sum,
     rows |-> [i \in 1..Len(res) |-> RenderRow(res[i])]]

\* report.html after open(path, "w") truncated it and the write failed.
HtmlTruncated(r) ==
    [exists |-> TRUE, complete |-> FALSE, run |-> r, summary |-> NoSummary,
     rows |-> << >>]

\* The document write_pdf produces from the HTML file it reads.
PdfDocument(r, source) ==
    [exists |-> TRUE, complete |-> TRUE, run |-> r, source |-> source]

\* analyze_control: raise_for_status, response.json, json.loads.
analyze_control(reply) ==
    IF reply.kind = "json"
    THEN [raised |-> FALSE, value |-> reply.obj]
    ELSE [raised |-> TRUE, value |-> reply.kind]

\* The result dictionary of analyze_pdf; a missing key raises KeyError.
ResultRaises(analysis) == ~(VerdictFields \subseteq DOMAIN analysis)

BuildResult(control, analysis) ==
    [control_id     |-> control.new_control_id,
     control_title  |-> control.new_title,
     domain         |-> control.domain,
     status         |-> analysis.status,
     risk_level     |-> analysis.risk_level,
     justification  |-> analysis.justification,
     recommendation |-> analysis.recommendation]

\* The loop "for control in iso_controls" visits the catalog front to back.
NextControlReversed(cat, done) == cat[Len(cat) - Len(done)]

NextControl(cat, done) == cat[Len(done) + 1]

CountStatus(res, s) == Cardinality({i \in 1..Len(res) : res[i].status = s})

\* round(x, 2) of x = met / total * 100, as hundredths of a percent.  At an
\* exact tie the float's last bit decides in Python; no count of the model's
\* catalogs gives a tie.
RoundHundredths(num, den) ==
    LET q == num \div den
        rem == num % den
    IN  IF 2 * rem < den THEN q
        ELSE IF 2 * rem > den THEN q + 1
        ELSE IF q % 2 = 0 THEN q ELSE q + 1

compliance_truncated(met, total) ==
    IF total > 0 THEN (met * 10000) \div total ELSE 0

compliance_percentage(met, total) ==
    IF total > 0 THEN RoundHundredths(met * 10000, total) ELSE 0

Summarise(res) ==
    LET total == Len(res)
        met == CountStatus(res, MET)
    IN  [set |-> TRUE,
         total_controls |-> total,
         met_count |-> met,
         partially_met_count |-> CountStatus(res, PARTIALLY_MET),
         not_met_count |-> CountStatus(res, NOT_MET),
         compliance_percentage |-> compliance_percentage(met, total)]

\* What the client gets: the return value, or the error of an exception
\* that left the handler.
ResponsePartial(r, err, sum, res) ==
    IF err = "none"
    THEN [request |-> r, status |-> "200", summary |-> sum, results |-> res]
    ELSE [request |-> r, status |-> "500", error |-> err, results |-> res]

Response(r, err, sum, res) ==
    IF err = "none"
    THEN [request |-> r, status |-> "200", summary |-> sum, results |-> res]
    ELSE [request |-> r, status |-> "500", error |-> err]

\* os.path.exists check of the download routes.
DownloadAlwaysServes(file) == "200"

DownloadStatus(file) == IF file.exists THEN "200" ELSE "404"

NoDownload == [route |-> "none", status |-> "none"]

\* ------------------------------------------------------------------ state
InitRequests ==
    /\ pc = [r \in Requests |-> "idle"]
    /\ loop = 0
    /\ tempFiles = {}
    /\ extracted = [r \in Requests |-> << >>]
    /\ calls = [r \in Requests |-> << >>]
    /\ results = [r \in Requests |-> << >>]
    /\ summary = [r \in Requests |-> NoSummary]
    /\ error = [r \in Requests |-> "none"]
    /\ response = [r \in Requests |-> "pending"]
    /\ before = [r \in Requests |-> <<NoFile, NoFile>>]
    /\ produced = {}
    /\ html = NoFile
    /\ pdf = NoFile
    /\ oracleCalls = 0
    /\ sent = NoResponse
    /\ lastDownload = NoDownload

\* After startup: the catalog is loaded, no request was served, reports/ is
\* empty.
Init ==
    /\ catalog \in {load_iso_controls(n) : n \in 0..MaxControls}
    /\ InitRequests
    /\ escIn = NoRowInput
    /\ escOut = NoRow

\* ------------------------------------------------------- POST /analyze
\* Lines 509-514: the temporary file is created, then the handler awaits
\* the upload's content and gives the event loop away.  Requests are numbered
\* in the order they arrive.
BeginRequest(r) ==
    /\ pc[r] = "idle"
    /\ \A q \in 1..(r - 1) : pc[q] # "idle"
    /\ loop = 0
    /\ tempFiles' = tempFiles \cup {r}
    /\ pc' = [pc EXCEPT ![r] = "reading"]
    /\ UNCHANGED <<catalog, loop, reqVars, produced, html, pdf, oracleCalls, escIn,
                   escOut>>
    /\ sent' = NoResponse
    /\ lastDownload' = NoDownload

\* Lines 514-517: the handler resumes, saves the upload and enters try.
SaveUpload(r) ==
    /\ pc[r] = "reading"
    /\ loop = 0
    /\ loop' = r
    /\ before' = [before EXCEPT ![r] = <<html, pdf>>]
    /\ pc' = [pc EXCEPT ![r] = "extract"]
    /\ UNCHANGED <<catalog, tempFiles, extracted, calls, results, summary, error,
                   response, produced, html, pdf, oracleCalls, escIn, escOut>>
    /\ sent' = NoResponse
    /\ lastDownload' = NoDownload

\* Lines 518-524: pdfplumber reads the temporary file, or raises.
Extract(r) ==
    /\ pc[r] = "extract"
    /\ \/ /\ \E text \in ExtractedTexts :
                extracted' = [extracted EXCEPT ![r] = text]
          /\ pc' = [pc EXCEPT ![r] = "judge"]
          /\ UNCHANGED error
       \/ /\ error' = [error EXCEPT ![r] = "ExtractionError"]
          /\ pc' = [pc EXCEPT ![r] = "finally"]
          /\ UNCHANGED extracted
    /\ UNCHANGED <<catalog, loop, tempFiles, calls, results, summary, response,
                   before, produced, html, pdf, oracleCalls, escIn, escOut>>
    /\ sent' = NoResponse
    /\ lastDownload' = NoDownload

\* Lines 528-530 and 172: the loop takes the next control and posts the
\* request to the oracle, which blocks the handler until the reply.
JudgeCall(r) ==
    /\ pc[r] = "judge"
    /\ Len(results[r]) < Len(catalog)
    /\ oracleCalls < MaxCalls
    /\ oracleCalls' = oracleCalls + 1
    /\ calls' = [calls EXCEPT ![r] = Append(@,
                    [control_id |-> NextControl(catalog, results[r]).new_control_id,
                     text |-> extracted[r]])]
    /\ pc' = [pc EXCEPT ![r] = "judge_wait"]
    /\ UNCHANGED <<catalog, loop, tempFiles, extracted, results, summary, error,
                   response, before, produced, html, pdf, escIn, escOut>>
    /\ sent' = NoResponse
    /\ lastDownload' = NoDownload

\* Lines 173-184 and 533-543: the reply is parsed and turned into a result
\* row; a bad HTTP status, content that is no JSON or a missing key raises.
JudgeReturn(r) ==
    /\ pc[r] = "judge_wait"
    /\ \E reply \in OracleReplies :
          LET analysis == analyze_control(reply) IN
          IF analysis.raised \/ ResultRaises(analysis.value)
          THEN /\ error' = [error EXCEPT ![r] = "JudgeError"]
               /\ pc' = [pc EXCEPT ![r] = "finally"]
               /\ UNCHANGED results
          ELSE /\ results' = [results EXCEPT ![r] = Append(@,
                       BuildResult(NextControl(catalog, results[r]), analysis.value))]
               /\ pc' = [pc EXCEPT ![r] = "judge"]
               /\ UNCHANGED error
    /\ UNCHANGED <<catalog, loop, tempFiles, extracted, calls, summary, response,
                   before, produced, html, pdf, oracleCalls, escIn, escOut>>
    /\ sent' = NoResponse
    /\ lastDownload' = NoDownload

\* Lines 545-559: the loop is over, the summary is computed.
ComputeSummary(r) ==
    /\ pc[r] = "judge"
    /\ Len(results[r]) = Len(catalog)
    /\ summary' = [summary EXCEPT ![r] = Summarise(results[r])]
    /\ pc' = [pc EXCEPT ![r] = "html"]
    /\ UNCHANGED <<catalog, loop, tempFiles, extracted, calls, results, error,
                   response, before, produced, html, pdf, oracleCalls, escIn, escOut>>
    /\ sent' = NoResponse
    /\ lastDownload' = NoDownload

\* Line 562, generate_html_report: the file is written; or makedirs/open
\* raises and the file is untouched; or the write raises after open
\* truncated the file.
GenerateHtml(r) ==
    /\ pc[r] = "html"
    /\ \/ /\ html' = HtmlDocument(r, summary[r], results[r])
          /\ produced' = produced \cup {"html"}
          /\ pc' = [pc EXCEPT ![r] = "pdf"]
          /\ UNCHANGED error
       \/ /\ error' = [error EXCEPT ![r] = "RenderError"]
          /\ pc' = [pc EXCEPT ![r] = "finally"]
          /\ UNCHANGED <<html, produced>>
       \/ /\ html' = HtmlTruncated(r)
          /\ produced' = produced \cup {"html"}
          /\ error' = [error EXCEPT ![r] = "RenderError"]
          /\ pc' = [pc EXCEPT ![r] = "finally"]
    /\ UNCHANGED <<catalog, loop, tempFiles, extracted, calls, results, summary,
                   response, before, pdf, oracleCalls, escIn, escOut>>
    /\ sent' = NoResponse
    /\ lastDownload' = NoDownload

\* A slip: an existing report.pdf is taken for the current one and kept.
GeneratePdfOnce(r) ==
    /\ pc[r] = "pdf"
    /\ pdf' = IF pdf.exists THEN pdf ELSE PdfDocument(r, html)
    /\ produced' = produced \cup {"pdf"}
    /\ pc' = [pc EXCEPT ![r] = "finally"]
    /\ UNCHANGED <<catalog, loop, tempFiles, extracted, calls, results, summary,
                   error, response, before, html, oracleCalls, escIn, escOut>>
    /\ sent' = NoResponse
    /\ lastDownload' = NoDownload

\* Line 566, generate_pdf_report: WeasyPrint renders the HTML file on disk
\* and writes the PDF; or rendering raises and the file is untouched.
GeneratePdf(r) ==
    /\ pc[r] = "pdf"
    /\ \/ /\ pdf' = PdfDocument(r, html)
          /\ produced' = produced \cup {"pdf"}
          /\ UNCHANGED error
       \/ /\ error' = [error EXCEPT ![r] = "RenderError"]
          /\ UNCHANGED <<pdf, produced>>
    /\ pc' = [pc EXCEPT ![r] = "finally"]
    /\ UNCHANGED <<catalog, loop, tempFiles, extracted, calls, results, summary,
                   response, before, html, oracleCalls, escIn, escOut>>
    /\ sent' = NoResponse
    /\ lastDownload' = NoDownload

\* A slip: the removal at the end of the try body instead of in finally.
FinishWithoutFinally(r) ==
    /\ pc[r] = "finally"
    /\ tempFiles' = IF error[r] = "none" THEN tempFiles \ {r} ELSE tempFiles
    /\ sent' = Response(r, error[r], summary[r], results[r])
    /\ response' = [response EXCEPT ![r] = sent'.status]
    /\ pc' = [pc EXCEPT ![r] = "done"]
    /\ loop' = 0
    /\ extracted' = [extracted EXCEPT ![r] = << >>]
    /\ calls' = [calls EXCEPT ![r] = << >>]
    /\ results' = [results EXCEPT ![r] = << >>]
    /\ summary' = [summary EXCEPT ![r] = NoSummary]
    /\ error' = [error EXCEPT ![r] = "none"]
    /\ before' = [before EXCEPT ![r] = <<NoFile, NoFile>>]
    /\ UNCHANGED <<catalog, produced, html, pdf, oracleCalls, escIn, escOut>>
    /\ lastDownload' = NoDownload

\* Lines 569-578: the return value or the exception leaves the handler
\* through finally, which removes the temporary file; the handler's locals
\* are gone.
Finish(r) ==
    /\ pc[r] = "finally"
    /\ tempFiles' = tempFiles \ {r}
    /\ sent' = Response(r, error[r], summary[r], results[r])
    /\ response' = [response EXCEPT ![r] = sent'.status]
    /\ pc' = [pc EXCEPT ![r] = "done"]
    /\ loop' = 0
    /\ extracted' = [extracted EXCEPT ![r] = << >>]
    /\ calls' = [calls EXCEPT ![r] = << >>]
    /\ results' = [results EXCEPT ![r] = << >>]
    /\ summary' = [summary EXCEPT ![r] = NoSummary]
    /\ error' = [error EXCEPT ![r] = "none"]
    /\ before' = [before EXCEPT ![r] = <<NoFile, NoFile>>]
    /\ UNCHANGED <<catalog, produced, html, pdf, oracleCalls, escIn, escOut>>
    /\ lastDownload' = NoDownload

\* ------------------------------------------------------ GET /download-*
download_report ==
    /\ lastDownload' = [route |-> "html", status |-> DownloadStatus(html)]
    /\ sent' = NoResponse
    /\ UNCHANGED <<catalog, pc, loop, tempFiles, reqVars, produced, html, pdf, oracleCalls,
                   escIn, escOut>>

download_report_pdf ==
    /\ lastDownload' = [route |-> "pdf", status |-> DownloadStatus(pdf)]
    /\ sent' = NoResponse
    /\ UNCHANGED <<catalog, pc, loop, tempFiles, reqVars, produced, html, pdf, oracleCalls,
                   escIn, escOut>>

Next ==
    \/ \E r \in Requests : BeginRequest(r)
    \/ \E r \in Requests : SaveUpload(r)
    \/ \E r \in Requests : Extract(r)
    \/ \E r \in Requests : JudgeCall(r)
    \/ \E r \in Requests : JudgeReturn(r)
    \/ \E r \in Requests : ComputeSummary(r)
    \/ \E r \in Requests : GenerateHtml(r)
    \/ \E r \in Requests : GeneratePdf(r)
    \/ \E r \in Requests : Finish(r)
    \/ download_report
    \/ download_report_pdf

Spec == Init /\ [][Next]_vars

\* ----------------------------------------- the row renderer on its own
\* Tokens of a free text: the four metacharacters, a plain piece of text and
\* a piece that reads like the tail of an entity.
TextTokens == {"&", "<", ">", "\"", "a", "amp;"}
FreeTexts == UNION {[1..n -> TextTokens] : n \in 0..MaxLen}
FreeTextFields == {"control_title", "domain", "justification", "recommendation"}

\* A result as analyze_pdf builds it, with one free-text field set.
ResultWith(field, text) ==
    [BuildResult(ControlRow(1), VMet) EXCEPT ![field] = text]

EscInit ==
    /\ catalog = load_iso_controls(0)
    /\ InitRequests
    /\ escIn \in [field : FreeTextFields, text : FreeTexts]
    /\ escOut = NoRow

\* Lines 447-473 for one result.
RenderOneRow ==
    /\ escOut = NoRow
    /\ escOut' = RenderRow(ResultWith(escIn.field, escIn.text))
    /\ UNCHANGED <<catalog, pc, loop, tempFiles, reqVars, produced, html, pdf,
                   oracleCalls, sent, lastDownload, escIn>>

EscNext == RenderOneRow

EscapeSpec == EscInit /\ [][EscNext]_vars

\* ------------------------------------------------------------------ claims
Quiet == \A r \in Requests : pc[r] \in {"idle", "done"}

\* C1: in the summary of every successful response over a non-empty
\* catalog, met_count + partially_met_count + not_met_count = total_controls.
C1_CountsSumToTotal ==
    (sent.status = "200" /\ Len(catalog) > 0) =>
        sent.summary.met_count + sent.summary.partially_met_count
            + sent.summary.not_met_count = sent.summary.total_controls

\* C2: no oracle reply with a status or a risk_level outside its enum (or
\* with a field missing) becomes a result row.
C2_OffEnumReplyRejected ==
    \A r \in Requests : \A i \in 1..Len(results[r]) :
        /\ results[r][i].status \in StatusEnum
        /\ results[r][i].risk_level \in RiskEnum

\* C3: when the Judge fails on a control, the request ends in an error whose
\* response carries neither summary nor results, no summary was computed and
\* both report files are as they were when the request's pipeline began.
C3_AllOrNothing ==
    /\ \A r \in Requests :
          (pc[r] = "finally" /\ error[r] = "JudgeError") =>
              /\ <<html, pdf>> = before[r]
              /\ summary[r] = NoSummary
    /\ (sent.status = "500" /\ sent.error = "JudgeError") =>
          DOMAIN sent = {"request", "status", "error"}

C3_Witness ==
    \E r \in Requests :
        /\ pc[r] = "finally" /\ error[r] = "JudgeError"
        /\ html.exists /\ pdf.exists /\ html.run # r

C5_OneCallPerControlInOrder ==
    \A r \in Requests :
        /\ pc[r] \in {"judge", "judge_wait"} =>
              Len(calls[r]) = Len(results[r]) + (IF pc[r] = "judge_wait" THEN 1 ELSE 0)
        /\ \A i \in 1..Len(calls[r]) :
              /\ i <= Len(catalog)
              /\ calls[r][i] = [control_id |-> catalog[i].new_control_id,
                                text |-> extracted[r]]
        /\ (pc[r] \in {"html", "pdf"} \/ (pc[r] = "finally" /\ error[r] # "JudgeError"
                                            /\ error[r] # "ExtractionError")) =>
              /\ Len(calls[r]) = Len(catalog)
              /\ Len(results[r]) = Len(catalog)
              /\ \A i \in 1..Len(catalog) :
                    results[r][i].control_id = catalog[i].new_control_id

C5_Witness ==
    \E r \in Requests :
        /\ pc[r] = "html"
        /\ Len(catalog) >= 2
        /\ extracted[r] = << >>
        /\ Len(calls[r]) = Len(catalog)

\* C6: a download of a report file that no analyze run has produced yet is
\* answered 404, whatever runs have failed before; a download changes
\* neither report file.
C6_NotFoundUntilProduced ==
    /\ [](/\ (lastDownload.route = "html" /\ "html" \notin produced) =>
                 lastDownload.status = "404"
          /\ (lastDownload.route = "pdf" /\ "pdf" \notin produced) =>
                 lastDownload.status = "404")
    /\ [][lastDownload' # NoDownload => UNCHANGED <<html, pdf, produced>>]_vars

C6_Witness ==
    /\ lastDownload = [route |-> "pdf", status |-> "404"]
    /\ html.exists
    /\ \E r \in Requests : response[r] = "500"

\* Reading the entities of an escaped text back.
Entities == {"amp;", "lt;", "gt;", "quot;"}

EntityChar(name) ==
    CASE name = "amp;" -> "&"
      [] name = "lt;" -> "<"
      [] name = "gt;" -> ">"
      [] name = "quot;" -> "\""

RECURSIVE Unescape(_)
Unescape(text) ==
    IF text = << >> THEN << >>
    ELSE IF Head(text) = "&" /\ Len(text) >= 2 /\ text[2] \in Entities
         THEN <<EntityChar(text[2])>> \o Unescape(Tail(Tail(text)))
         ELSE <<Head(text)>> \o Unescape(Tail(text))

NoRawMarkup(text) ==
    \A i \in 1..Len(text) :
        /\ text[i] \notin {"<", ">", "\""}
        /\ text[i] = "&" => (i < Len(text) /\ text[i + 1] \in Entities)

\* C7: the text a row shows for a free-text field has no raw <, > or ", and
\* reading its entities back gives the field's text: every & became &amp; and
\* nothing was escaped twice.
C7_FreeTextEscaped ==
    escOut # NoRow =>
        /\ NoRawMarkup(escOut[escIn.field])
        /\ Unescape(escOut[escIn.field]) = escIn.text

C7_Witness ==
    /\ escIn.text = <<"<", "&", "\"">>
    /\ escIn.field = "justification"
    /\ escOut # NoRow
    /\ escOut.justification = <<"&", "lt;", "&", "amp;", "&", "quot;">>

\* C8: every row of the report file is tagged with one of the three status
\* classes and one of the three risk classes.
C8_RowTagsInClasses ==
    html.exists =>
        \A i \in 1..Len(html.rows) :
            /\ html.rows[i].status_class \in StatusClasses
            /\ html.rows[i].risk_class \in RiskClasses

Abs(x) == IF x < 0 THEN -x ELSE x

\* C9: in every successful response total_controls is the catalog's size and
\* compliance_percentage (in hundredths of a percent) is the hundredth
\* nearest to met_count / total_controls * 100, and 0 for an empty catalog.
C9_CompliancePercentage ==
    sent.status = "200" =>
        LET sm == sent.summary IN
        /\ sm.total_controls = Len(catalog)
        /\ sm.total_controls = 0 => sm.compliance_percentage = 0
        /\ sm.total_controls > 0 =>
              2 * Abs(sm.compliance_percentage * sm.total_controls
                          - sm.met_count * 10000) <= sm.total_controls

C9_Witness ==
    /\ sent.status = "200"
    /\ sent.summary.total_controls = 3
    /\ sent.summary.met_count = 2
    /\ sent.summary.compliance_percentage = 6667

====
